---- MODULE Spec2Model ----
(***************************************************************************)
(* Invoice ledger and report pipeline of nms-invoicer:                     *)
(*   helper.py    strip, Datafile (the ledger store)                       *)
(*   inserter.py  LatexBuilder (report assembler and compiler driver)      *)
(*                                                                         *)
(* Text is modelled as a sequence of one-character strings, so that        *)
(* joining, splitting, parsing and formatting are computed as the code     *)
(* computes them.  A file is its text, newlines included.                  *)
(*                                                                         *)
(* The code is single-threaded and every call runs to completion, so each  *)
(* call is one action.  What the environment decides is an input of the    *)
(* action: whether which finds a compiler, the exit status of the compiler *)
(* and of each find, the transient files a compiler leaves.  The fixed     *)
(* parts of the working tree (tex/, tex/blocks/, the programs which and    *)
(* find) are taken to be present, and Python's own file operations to      *)
(* succeed on an existing directory.                                       *)
(***************************************************************************)
EXTENDS Integers, Sequences, FiniteSets, TLC

\* ------------------------------------------------------------------ bounds
\* Number of Datafile objects that may be constructed for the event.
MaxObjs == 2
\* Number of store calls in one behaviour.
MaxStores == 3
\* Number of rows of the ledger files the report assembler is tried on.
MaxRows == 3

\* ------------------------------------------------------------- characters
NL == "\n"
COMMA == ","
DigitChars == <<"0","1","2","3","4","5","6","7","8","9">>
UpperChars == <<"A","B","C","D","E","F","G","H","I","J","K","L","M","N","O","P","Q","R","S","T","U","V","W","X","Y","Z">>
LowerChars == <<"a","b","c","d","e","f","g","h","i","j","k","l","m","n","o","p","q","r","s","t","u","v","w","x","y","z">>

Range(s) == {s[i] : i \in DOMAIN s}
IsDigit(c) == c \in Range(DigitChars)
DigitVal(c) == (CHOOSE i \in DOMAIN DigitChars : DigitChars[i] = c) - 1
IsSpace(c) == c \in {" ", NL}

\* str.lower / str.upper on one character
LowerChar(c) ==
    IF c \in Range(UpperChars)
    THEN LowerChars[CHOOSE i \in DOMAIN UpperChars : UpperChars[i] = c]
    ELSE c
UpperChar(c) ==
    IF c \in Range(LowerChars)
    THEN UpperChars[CHOOSE i \in DOMAIN LowerChars : LowerChars[i] = c]
    ELSE c
Lower(s) == [i \in DOMAIN s |-> LowerChar(s[i])]
\* str.capitalize: first character upper case, the rest lower case
Capitalize(s) == [i \in DOMAIN s |-> IF i = 1 THEN UpperChar(s[i]) ELSE LowerChar(s[i])]
\* str.replace(c, "") for a one-character pattern
Remove(s, c) == SelectSeq(s, LAMBDA x : x # c)
\* str.replace(a, b) for one-character a and b
Replace(s, a, b) == [i \in DOMAIN s |-> IF s[i] = a THEN b ELSE s[i]]
EndsWith(s, suf) ==
    /\ Len(s) >= Len(suf)
    /\ SubSeq(s, Len(s) - Len(suf) + 1, Len(s)) = suf

\* str.rstrip(): trailing white space removed
RECURSIVE RStrip(_)
RStrip(s) ==
    IF s # <<>> /\ IsSpace(s[Len(s)]) THEN RStrip(SubSeq(s, 1, Len(s) - 1)) ELSE s
RECURSIVE LStrip(_)
LStrip(s) ==
    IF s # <<>> /\ IsSpace(s[1]) THEN LStrip(Tail(s)) ELSE s

\* str.split(sep) for a one-character separator: empty fields are kept
RECURSIVE Split(_, _)
Split(s, sep) ==
    IF \A i \in DOMAIN s : s[i] # sep
    THEN <<s>>
    ELSE LET i == CHOOSE k \in DOMAIN s : s[k] = sep /\ \A j \in 1..(k - 1) : s[j] # sep
         IN  <<SubSeq(s, 1, i - 1)>> \o Split(SubSeq(s, i + 1, Len(s)), sep)

\* sep.join(parts)
RECURSIVE Join(_, _)
Join(parts, sep) ==
    IF parts = <<>> THEN <<>>
    ELSE IF Len(parts) = 1 THEN parts[1]
    ELSE parts[1] \o <<sep>> \o Join(Tail(parts), sep)

\* Iterating a text file: one item per line, a last line without a newline
\* included, nothing after a final newline.
FileLines(text) ==
    LET parts == Split(text, NL)
    IN  IF parts[Len(parts)] = <<>> THEN SubSeq(parts, 1, Len(parts) - 1) ELSE parts

\* --------------------------------------------------------------- numbers
\* str(n) of a natural number
RECURSIVE NatStr(_)
NatStr(n) ==
    IF n < 10 THEN <<DigitChars[n + 1]>>
    ELSE NatStr(n \div 10) \o <<DigitChars[(n % 10) + 1]>>
\* zero-padded to two digits, as %d and %m of strftime
Pad2(n) == IF n < 10 THEN <<"0">> \o NatStr(n) ELSE NatStr(n)

AllDigits(s) == \A i \in DOMAIN s : IsDigit(s[i])
RECURSIVE DigitsVal(_)
DigitsVal(s) ==
    IF s = <<>> THEN 0 ELSE 10 * DigitsVal(SubSeq(s, 1, Len(s) - 1)) + DigitVal(s[Len(s)])

\* A float is modelled by its value in hundredths.  float(text) of a decimal
\* numeral: optional sign, digits, optional point and digits, white space
\* around it ignored; anything else is a ValueError.  The inputs of the model
\* carry at most two fractional digits (what strip lets through), for which
\* the sum and round(., 2) of the code are exact; fractional digits after the
\* second are accepted when they are zeros.
NaF == [ok |-> FALSE, cents |-> 0]
ParseFloat(text) ==
    LET t == RStrip(LStrip(text))
        neg == t # <<>> /\ t[1] = "-"
        u == IF t # <<>> /\ t[1] \in {"-", "+"} THEN Tail(t) ELSE t
        parts == Split(u, ".")
        ip == parts[1]
        fp == IF Len(parts) = 2 THEN parts[2] ELSE <<>>
        fp2 == SubSeq(fp \o <<"0","0">>, 1, 2)
        rest == IF Len(fp) > 2 THEN SubSeq(fp, 3, Len(fp)) ELSE <<>>
        mag == 100 * DigitsVal(ip) + DigitsVal(fp2)
    IN  IF /\ Len(parts) <= 2
           /\ AllDigits(ip) /\ AllDigits(fp)
           /\ Len(ip) + Len(fp) > 0
           /\ \A i \in DOMAIN rest : rest[i] = "0"
        THEN [ok |-> TRUE, cents |-> IF neg THEN 0 - mag ELSE mag]
        ELSE NaF

\* str(x) of a float: shortest decimal text, at least one fractional digit
FloatStr(cents) ==
    LET mag == IF cents < 0 THEN 0 - cents ELSE cents
        frac == mag % 100
        body == NatStr(mag \div 100) \o <<".">> \o
                (IF frac % 10 = 0 THEN NatStr(frac \div 10) ELSE Pad2(frac))
    IN  IF cents < 0 THEN <<"-">> \o body ELSE body

\* ----------------------------------------------------------------- dates
IsLeap(y) == (y % 4 = 0 /\ y % 100 # 0) \/ y % 400 = 0
DaysIn(y, m) ==
    IF m \in {4, 6, 9, 11} THEN 30
    ELSE IF m = 2 THEN (IF IsLeap(y) THEN 29 ELSE 28)
    ELSE 31
NoDate == [ok |-> FALSE, y |-> 0, m |-> 0, d |-> 0]
\* datetime.strptime(text, "%Y-%m-%d"): a four-digit year, one- or two-digit
\* month and day, a valid calendar date; anything else is a ValueError
strptime(text) ==
    LET parts == Split(text, "-")
    IN  IF /\ Len(parts) = 3
           /\ \A i \in 1..3 : AllDigits(parts[i])
           /\ Len(parts[1]) = 4
           /\ Len(parts[2]) \in {1, 2} /\ Len(parts[3]) \in {1, 2}
        THEN LET y == DigitsVal(parts[1])
                 m == DigitsVal(parts[2])
                 d == DigitsVal(parts[3])
             IN  IF y >= 1 /\ m \in 1..12 /\ d \in 1..DaysIn(y, m)
                 THEN [ok |-> TRUE, y |-> y, m |-> m, d |-> d]
                 ELSE NoDate
        ELSE NoDate
\* datetime.strftime(d, "%d.%m.%Y")
strftime(dt) == Pad2(dt.d) \o <<".">> \o Pad2(dt.m) \o <<".">> \o NatStr(dt.y)
\* datetime comparison
DateLess(a, b) ==
    \/ a.y < b.y
    \/ a.y = b.y /\ a.m < b.m
    \/ a.y = b.y /\ a.m = b.m /\ a.d < b.d

\* ------------------------------------------------------- ledger store
\* The record keys, in the order strip builds the dict.
K_invoice_date == <<"i","n","v","o","i","c","e","_","d","a","t","e">>
K_event_name == <<"e","v","e","n","t","_","n","a","m","e">>
K_purpose == <<"p","u","r","p","o","s","e">>
K_cost == <<"c","o","s","t">>
K_user == <<"u","s","e","r">>
RecordKeys == <<K_invoice_date, K_event_name, K_purpose, K_cost, K_user>>

\* A dict value is a str or a float.
StrV(s) == [t |-> "str", s |-> s, c |-> 0]
FloatV(c) == [t |-> "float", s |-> <<>>, c |-> c]
\* str(v)
PyStr(v) == IF v.t = "float" THEN FloatStr(v.c) ELSE v.s

\* A record as strip returns it: the five keys in order, cost a float.
Rec(date, event, purpose, cents, user) ==
    << [k |-> K_invoice_date, v |-> StrV(date)],
       [k |-> K_event_name, v |-> StrV(event)],
       [k |-> K_purpose, v |-> StrV(purpose)],
       [k |-> K_cost, v |-> FloatV(cents)],
       [k |-> K_user, v |-> StrV(user)] >>

EventName == <<"b","e","r","_","2","4">>
\* The same name as a user may see it spelled, and the name of another event
EventSpelling == <<"B","e","r"," ","_","2","4">>
OtherEvent == <<"m","u","n","_","2","4">>
DataPath == <<"d","b","/">>
Extension == <<".","d","a","t","a">>
\* Datafile.filename
Filename(event_name) == DataPath \o event_name \o Extension

Records ==
    { Rec(<<"2","0","2","4","-","0","3","-","0","1">>, EventName, <<"T","a","x","i">>, 1000, <<"U","1">>),
      Rec(<<"2","0","2","4","-","0","1","-","1","5">>, EventName, <<"F","o","o","d">>, 550, <<"U","2">>),
      Rec(<<"2","0","2","4","-","0","1","-","1","5">>, EventName, <<"B","e","e","r">>, 1269, <<"U","1">>) }

\* header = ",".join(d.keys())
HeaderOf(d) == Join([i \in DOMAIN d |-> d[i].k], COMMA)
\* row = ",".join(str(v) for v in d.values())
RowOf(d) == Join([i \in DOMAIN d |-> PyStr(d[i].v)], COMMA)

\* ------------------------------------------------------ record validator
\* float(text) of Python: white space around the numeral ignored, an optional
\* sign, then nan, inf or infinity in any case, or decimal digits with an
\* optional point and an optional exponent, single underscores allowed
\* between digits; anything else is a ValueError.  The value is kept as its
\* significant digits and the position of the decimal point (0.d1d2... times
\* ten to the decpt), which is exact for the shortest-repr of a numeral of at
\* most 15 significant digits inside the float range.
Zeros(n) == [i \in 1..n |-> "0"]
LeadZeros(s) ==
    IF \A i \in DOMAIN s : s[i] = "0" THEN Len(s)
    ELSE (CHOOSE k \in DOMAIN s : s[k] # "0" /\ \A j \in 1..(k - 1) : s[j] = "0") - 1
TrailZeros(s) ==
    IF \A i \in DOMAIN s : s[i] = "0" THEN Len(s)
    ELSE Len(s) - (CHOOSE k \in DOMAIN s : s[k] # "0" /\ \A j \in (k + 1)..Len(s) : s[j] = "0")
UnderscoresOk(s) ==
    \A i \in DOMAIN s :
        s[i] = "_" => (i > 1 /\ i < Len(s) /\ IsDigit(s[i - 1]) /\ IsDigit(s[i + 1]))
NotAFloat == [ok |-> FALSE, kind |-> "num", neg |-> FALSE, digits |-> <<>>, decpt |-> 0]
PyFloat(text) ==
    LET t == RStrip(LStrip(text))
        neg == t # <<>> /\ t[1] = "-"
        u == IF t # <<>> /\ t[1] \in {"-", "+"} THEN Tail(t) ELSE t
        lu == Lower(u)
        ep == Split(lu, "e")
        mant == ep[1]
        expo == IF Len(ep) = 2 THEN ep[2] ELSE <<>>
        eneg == expo # <<>> /\ expo[1] = "-"
        edig == IF expo # <<>> /\ expo[1] \in {"-", "+"} THEN Tail(expo) ELSE expo
        emag == DigitsVal(Remove(edig, "_"))
        mp == Split(Remove(mant, "_"), ".")
        ip == mp[1]
        fp == IF Len(mp) = 2 THEN mp[2] ELSE <<>>
        all == ip \o fp
        lz == LeadZeros(all)
        digits == IF lz = Len(all) THEN <<>>
                  ELSE SubSeq(all, lz + 1, Len(all) - TrailZeros(all))
        decpt == Len(ip) + (IF eneg THEN 0 - emag ELSE emag) - lz
    IN  IF lu = <<"n","a","n">>
        THEN [ok |-> TRUE, kind |-> "nan", neg |-> FALSE, digits |-> <<>>, decpt |-> 0]
        ELSE IF lu \in {<<"i","n","f">>, <<"i","n","f","i","n","i","t","y">>}
        THEN [ok |-> TRUE, kind |-> "inf", neg |-> neg, digits |-> <<>>, decpt |-> 0]
        ELSE IF /\ Len(ep) <= 2
                /\ Len(ep) = 2 =>
                     (edig # <<>> /\ UnderscoresOk(edig) /\ AllDigits(Remove(edig, "_")))
                /\ UnderscoresOk(mant)
                /\ Len(mp) <= 2
                /\ AllDigits(ip) /\ AllDigits(fp)
                /\ Len(ip) + Len(fp) > 0
        THEN [ok |-> TRUE, kind |-> "num", neg |-> neg, digits |-> digits,
              decpt |-> IF digits = <<>> THEN 0 ELSE decpt]
        ELSE NotAFloat

\* str(x) of a float: repr switches to the exponent form when the decimal
\* point would lie more than 16 digits right or 4 or more zeros left of the
\* first significant digit.
PyFloatStr(f) ==
    LET d == f.digits
        n == Len(d)
        e == f.decpt - 1
        body ==
            IF n = 0 THEN <<"0", ".", "0">>
            ELSE IF f.decpt > 16 \/ f.decpt <= -4
            THEN <<d[1]>> \o (IF n > 1 THEN <<".">> \o Tail(d) ELSE <<>>) \o <<"e">> \o
                 (IF e < 0 THEN <<"-">> \o Pad2(0 - e) ELSE <<"+">> \o Pad2(e))
            ELSE IF f.decpt <= 0 THEN <<"0", ".">> \o Zeros(0 - f.decpt) \o d
            ELSE IF f.decpt >= n THEN d \o Zeros(f.decpt - n) \o <<".", "0">>
            ELSE SubSeq(d, 1, f.decpt) \o <<".">> \o SubSeq(d, f.decpt + 1, n)
    IN  IF f.kind = "nan" THEN <<"n","a","n">>
        ELSE IF f.kind = "inf"
        THEN (IF f.neg THEN <<"-">> ELSE <<>>) \o <<"i","n","f">>
        ELSE (IF f.neg THEN <<"-">> ELSE <<>>) \o body

\* s[::-1].find("."): the number of characters after the last point, -1
\* when there is no point
ReversedFind(s) ==
    IF \A i \in DOMAIN s : s[i] # "." THEN 0 - 1
    ELSE Len(s) - (CHOOSE k \in DOMAIN s : s[k] = "." /\ \A j \in (k + 1)..Len(s) : s[j] # ".")

\* A float as a dict value: by its hundredths when it is a whole number of
\* them (the form the report assembler computes with), else by its str.
FloatR(text) == [t |-> "other", s |-> text, c |-> 0]
FloatValue(f) ==
    LET text == PyFloatStr(f)
        p == ParseFloat(text)
    IN  IF p.ok /\ FloatStr(p.cents) = text THEN FloatV(p.cents) ELSE FloatR(text)

\* The fields of the submitted view that strip reads
RawFields(event_name, invoice_date, cost, purpose) ==
    [event_name |-> event_name, invoice_date |-> invoice_date, cost |-> cost,
     purpose |-> purpose]

Record(date, event, purpose, cost, user) ==
    << [k |-> K_invoice_date, v |-> StrV(date)],
       [k |-> K_event_name, v |-> StrV(event)],
       [k |-> K_purpose, v |-> StrV(purpose)],
       [k |-> K_cost, v |-> cost],
       [k |-> K_user, v |-> StrV(user)] >>

\* d[key] of a record
FieldOf(d, key) == d[CHOOSE i \in DOMAIN d : d[i].k = key].v

InputError(message) == [err |-> "InputError", message |-> message, key |-> "invoice_cost", out |-> <<>>]

\* strip(v, user_id): the record, or the exception raised
strip(v, user_id) ==
    IF v.purpose = <<>>
    THEN [err |-> "IndexError", message |-> "", key |-> "", out |-> <<>>]
    ELSE LET purpose == <<UpperChar(v.purpose[1])>> \o Tail(v.purpose)
             cost == PyFloat(v.cost)
         IN  IF ~cost.ok THEN InputError("Bitte Ganzzahl oder Englisches Format nutzen")
             ELSE IF ReversedFind(PyFloatStr(cost)) > 2
                  THEN InputError("Mehr als zwei Nachkommastellen")
             ELSE [err |-> "none", message |-> "", key |-> "",
                   out |-> Record(v.invoice_date, v.event_name, purpose,
                                  FloatValue(cost), user_id)]

VARIABLES
    dbDir,      \* whether the directory db/ exists
    files,      \* the files under db/: path -> text
    objs,       \* the Datafile objects: constructed, filename, is_new_file
    stored,     \* history: the records passed to store, in call order
    bpc,        \* "none" before a LatexBuilder is constructed, then "built"
    b,          \* the LatexBuilder object's fields
    loaded,     \* history: the data dict as the constructor loaded it
    frag,       \* the fragment files under tex/blocks/: name -> text
    outDir,     \* whether the directory ./out/ exists
    jobDirs,    \* the job directories under ./out/
    junk,       \* the extensions of the transient build files in the tree
    docs,       \* the documents produced
    result,     \* history: the last LatexBuilder call (its arguments, what the
                \* environment decided, the processes it started, the
                \* extensions whose files it deleted) and how it ended
    stripped,   \* history: the last strip call, its arguments and its outcome
    other,      \* a second LatexBuilder object, of another event: whether it
                \* is constructed, and its fields
    wrote,      \* history: the fragment files as each builder's last completed
                \* set() left them
    cpc         \* where each caller of the handler stands in its own
                \* Datafile(...).store(...), when callers run concurrently

ledgerVars == <<dbDir, files, objs, stored>>
builderVars == <<bpc, b, loaded, frag, outDir, jobDirs, junk, docs, result>>
validatorVars == <<stripped>>
callerVars == <<cpc>>
otherVars == <<other, wrote>>
vars == <<dbDir, files, objs, stored, bpc, b, loaded, frag, outDir, jobDirs, junk, docs, result,
          stripped, cpc, other, wrote>>

ObjIds == 1..MaxObjs
NoObj == [constructed |-> FALSE, filename |-> <<>>, is_new_file |-> FALSE]

isfile(path) == path \in DOMAIN files

\* The events api.get_events() knows; the lookup of any other name raises
\* KeyError before the constructor touches the file system.
KnownEvents == {EventName, EventSpelling, OtherEvent}

\* A constructor that opens the file with "w+" whether it exists or not
Datafile_init_truncates(o, event_name) ==
    /\ ~objs[o].constructed
    /\ event_name \in KnownEvents
    /\ dbDir' = TRUE
    /\ objs' = [objs EXCEPT ![o] = [constructed |-> TRUE,
                                      filename |-> Filename(event_name),
                                      is_new_file |-> TRUE]]
    /\ files' = (Filename(event_name) :> <<>>) @@ files
    /\ UNCHANGED stored
    /\ UNCHANGED builderVars
    /\ UNCHANGED validatorVars
    /\ UNCHANGED otherVars
    /\ UNCHANGED callerVars

\* Datafile.__init__ of object o for event_name
Datafile_init(o, event_name) ==
    /\ ~objs[o].constructed
    /\ event_name \in KnownEvents
    /\ dbDir' = TRUE
    /\ LET filename == Filename(event_name)
       IN  /\ objs' = [objs EXCEPT ![o] =
                          [constructed |-> TRUE, filename |-> filename,
                           is_new_file |-> ~isfile(filename)]]
           /\ files' = IF isfile(filename) THEN files ELSE (filename :> <<>>) @@ files
    /\ UNCHANGED stored
    /\ UNCHANGED builderVars
    /\ UNCHANGED validatorVars
    /\ UNCHANGED otherVars
    /\ UNCHANGED callerVars

\* The text one store call appends to the file.
StoreText(is_new_file, d) ==
    (IF is_new_file THEN HeaderOf(d) \o <<NL>> ELSE <<>>) \o RowOf(d) \o <<NL>>

\* A store that decides on the header by looking at the file
Stores_by_file(o, d) ==
    /\ LET fn == objs[o].filename
           old == IF isfile(fn) THEN files[fn] ELSE <<>>
       IN  files' = (fn :> (old \o StoreText(old = <<>>, d))) @@ files
    /\ objs' = [objs EXCEPT ![o].is_new_file = FALSE]
    /\ stored' = Append(stored, d)

\* What Datafile.store(d) does on object o; open(filename, "a") creates a
\* missing file, and header and row reach the file in one write when the
\* file is closed
Stores(o, d) ==
    /\ LET fn == objs[o].filename
           old == IF isfile(fn) THEN files[fn] ELSE <<>>
       IN  files' = (fn :> (old \o StoreText(objs[o].is_new_file, d))) @@ files
    /\ objs' = [objs EXCEPT ![o].is_new_file = FALSE]
    /\ stored' = Append(stored, d)

\* Datafile.store(d) on object o
store(o, d) ==
    /\ objs[o].constructed
    /\ Len(stored) < MaxStores
    /\ Stores(o, d)
    /\ UNCHANGED dbDir
    /\ UNCHANGED builderVars
    /\ UNCHANGED validatorVars
    /\ UNCHANGED otherVars
    /\ UNCHANGED callerVars

\* ---------------------------------------------------- concurrent callers
\* Two handlers of the same event may run at once, each in its own thread.
\* Caller c runs Datafile(event_name).store(d) on its own object c, and the
\* file system calls of the two interleave: isdir, mkdir, isfile, the
\* open(..., "w+") that creates or truncates the file, and the append.

\* if not isdir(datapath)
CallerIsdir(c, event_name) ==
    /\ cpc[c] = "start"
    /\ event_name \in KnownEvents
    /\ objs' = [objs EXCEPT ![c] = [constructed |-> FALSE,
                                      filename |-> Filename(event_name),
                                      is_new_file |-> FALSE]]
    /\ cpc' = [cpc EXCEPT ![c] = IF dbDir THEN "isfile" ELSE "mkdir"]
    /\ UNCHANGED <<dbDir, files, stored>>
    /\ UNCHANGED builderVars
    /\ UNCHANGED validatorVars
    /\ UNCHANGED otherVars

\* os.mkdir(datapath): FileExistsError when the other caller made it first
CallerMkdir(c) ==
    /\ cpc[c] = "mkdir"
    /\ cpc' = [cpc EXCEPT ![c] = IF dbDir THEN "FileExistsError" ELSE "isfile"]
    /\ dbDir' = TRUE
    /\ UNCHANGED <<files, objs, stored>>
    /\ UNCHANGED builderVars
    /\ UNCHANGED validatorVars
    /\ UNCHANGED otherVars

\* if not isfile(self.filename)
CallerIsfile(c) ==
    /\ cpc[c] = "isfile"
    /\ cpc' = [cpc EXCEPT ![c] = IF isfile(objs[c].filename) THEN "store" ELSE "create"]
    /\ objs' = [objs EXCEPT ![c].constructed = isfile(objs[c].filename)]
    /\ UNCHANGED <<dbDir, files, stored>>
    /\ UNCHANGED builderVars
    /\ UNCHANGED validatorVars
    /\ UNCHANGED otherVars

\* self.is_new_file = True; open(self.filename, "w+"): the file is created,
\* or emptied when it exists by now
CallerCreate(c) ==
    /\ cpc[c] = "create"
    /\ cpc' = [cpc EXCEPT ![c] = "store"]
    /\ objs' = [objs EXCEPT ![c].constructed = TRUE, ![c].is_new_file = TRUE]
    /\ files' = (objs[c].filename :> <<>>) @@ files
    /\ UNCHANGED <<dbDir, stored>>
    /\ UNCHANGED builderVars
    /\ UNCHANGED validatorVars
    /\ UNCHANGED otherVars

\* file.store(stripped)
CallerStore(c, d) ==
    /\ cpc[c] = "store"
    /\ cpc' = [cpc EXCEPT ![c] = "done"]
    /\ Stores(c, d)
    /\ UNCHANGED dbDir
    /\ UNCHANGED builderVars
    /\ UNCHANGED validatorVars
    /\ UNCHANGED otherVars

\* ------------------------------------------------------- LatexBuilder
Min(x, y) == IF x <= y THEN x ELSE y
RECURSIVE Flatten(_)
Flatten(ss) == IF ss = <<>> THEN <<>> ELSE ss[1] \o Flatten(Tail(ss))

\* The keys of {key: [] for key in header}: header order, a repeated key once
RECURSIVE Dedup(_)
Dedup(s) ==
    IF s = <<>> THEN <<>>
    ELSE LET r == Dedup(SubSeq(s, 1, Len(s) - 1))
         IN  IF s[Len(s)] \in Range(r) THEN r ELSE Append(r, s[Len(s)])

\* What one row appends under key: for (key, val) in zip(header, entry)
RowAppends(header, entry, key) ==
    LET n == Min(Len(header), Len(entry))
        idx == SelectSeq([i \in 1..n |-> i], LAMBDA i : header[i] = key)
    IN  [j \in DOMAIN idx |-> entry[idx[j]]]

\* The loop over the lines of a file that has at least one line
LoadData(text) ==
    LET lines == FileLines(text)
        header == Split(RStrip(lines[1]), COMMA)
        entries == [r \in 1..(Len(lines) - 1) |-> Split(RStrip(lines[r + 1]), COMMA)]
    IN  [keys |-> Dedup(header),
         data |-> [key \in Range(header) |->
                     Flatten([r \in DOMAIN entries |-> RowAppends(header, entries[r], key)])],
         data_size |-> Len(lines) - 1]

RECURSIVE SumCents(_)
SumCents(costs) ==
    IF costs = <<>> THEN 0 ELSE ParseFloat(costs[1]).cents + SumCents(Tail(costs))
\* str(round(sum(float(price) for price in cost), 2)); the sum of no price is
\* the int 0, whose str has no fractional digit
Total(costs) == IF costs = <<>> THEN <<"0">> ELSE FloatStr(SumCents(costs))

NoBuilder ==
    [data_size |-> 0, event_date |-> <<>>, is_set |-> FALSE, keys |-> <<>>,
     data |-> <<>>, total |-> <<>>, dates |-> [kind |-> "datetime", v |-> <<>>],
     event_name |-> <<>>]
Raised(e) == [err |-> e, b |-> NoBuilder]

\* LatexBuilder.__init__(datafile, event_date): the object, or the exception
LatexBuilder_init(datafile, event_date) ==
    IF ~EndsWith(datafile, Extension) THEN Raised("InvalidFormatError")
    ELSE IF ~isfile(datafile) THEN Raised("FileNotFoundError")
    ELSE IF FileLines(files[datafile]) = <<>> THEN Raised("AttributeError")
    ELSE LET ld == LoadData(files[datafile])
             d == ld.data
         IN  IF K_cost \notin DOMAIN d THEN Raised("KeyError")
             ELSE IF \E i \in DOMAIN d[K_cost] : ~ParseFloat(d[K_cost][i]).ok
                  THEN Raised("ValueError")
             ELSE IF K_invoice_date \notin DOMAIN d THEN Raised("KeyError")
             ELSE IF \E i \in DOMAIN d[K_invoice_date] : ~strptime(d[K_invoice_date][i]).ok
                  THEN Raised("ValueError")
             ELSE IF K_event_name \notin DOMAIN d THEN Raised("KeyError")
             ELSE IF d[K_event_name] = <<>> THEN Raised("IndexError")
             ELSE [err |-> "none",
                   b |-> [data_size |-> ld.data_size,
                          event_date |-> event_date,
                          is_set |-> FALSE,
                          keys |-> ld.keys,
                          data |-> d,
                          total |-> Total(d[K_cost]),
                          dates |-> [kind |-> "datetime",
                                     v |-> [i \in DOMAIN d[K_invoice_date] |->
                                              strptime(d[K_invoice_date][i])]],
                          event_name |-> Remove(Lower(d[K_event_name][1]), " ")]]

\* Code point order of the characters that occur in the model's texts
AsciiOrder == <<NL, " ", "&", "+", ",", "-", ".", "/">> \o DigitChars \o UpperChars
                \o <<"\\", "_">> \o LowerChars \o <<"{", "}">>
CharRank(c) == CHOOSE i \in DOMAIN AsciiOrder : AsciiOrder[i] = c
\* str comparison
RECURSIVE StrLess(_, _)
StrLess(x, y) ==
    IF y = <<>> THEN FALSE
    ELSE IF x = <<>> THEN TRUE
    ELSE IF x[1] = y[1] THEN StrLess(Tail(x), Tail(y))
    ELSE CharRank(x[1]) < CharRank(y[1])
\* The order sorted() uses on the elements of self.dates
KeyLess(kind, x, y) == IF kind = "datetime" THEN DateLess(x, y) ELSE StrLess(x, y)

\* A stable sort of the indices by their keys, as sorted(range(n), key=...)
RECURSIVE InsertIdx(_, _, _)
InsertIdx(p, i, dates) ==
    IF p = <<>> THEN <<i>>
    ELSE IF KeyLess(dates.kind, dates.v[i], dates.v[p[Len(p)]])
         THEN Append(InsertIdx(SubSeq(p, 1, Len(p) - 1), i, dates), p[Len(p)])
         ELSE Append(p, i)
RECURSIVE ArgsortUpTo(_, _)
ArgsortUpTo(dates, n) ==
    IF n = 0 THEN <<>> ELSE InsertIdx(ArgsortUpTo(dates, n - 1), n, dates)

\* A sort that is not stable: an index goes before the indices of equal key
RECURSIVE InsertIdxBeforeTies(_, _, _)
InsertIdxBeforeTies(p, i, dates) ==
    IF p = <<>> THEN <<i>>
    ELSE IF ~KeyLess(dates.kind, dates.v[p[Len(p)]], dates.v[i])
         THEN Append(InsertIdxBeforeTies(SubSeq(p, 1, Len(p) - 1), i, dates), p[Len(p)])
         ELSE Append(p, i)
RECURSIVE ArgsortBeforeTiesUpTo(_, _)
ArgsortBeforeTiesUpTo(dates, n) ==
    IF n = 0 THEN <<>>
    ELSE InsertIdxBeforeTies(ArgsortBeforeTiesUpTo(dates, n - 1), n, dates)
argsort_unstable(dates) == ArgsortBeforeTiesUpTo(dates, Len(dates.v))

\* LatexBuilder.argsort(self.dates), indices counted from 1
argsort(dates) == ArgsortUpTo(dates, Len(dates.v))

\* [val[s] for s in indices], and whether it raises no IndexError
Permute(val, indices) == [j \in DOMAIN indices |-> val[indices[j]]]
CanPermute(val, indices) == \A j \in DOMAIN indices : indices[j] <= Len(val)

\* LatexBuilder.sort_by_date: the object after the call, and the exception if
\* one is raised.  The lists are replaced key by key, so an IndexError leaves
\* the keys before the failing one permuted; strftime of a str (dates already
\* formatted by an earlier call) is a TypeError after all lists were permuted.
sort_by_date(self) ==
    LET indices == argsort(self.dates)
        bad == {i \in DOMAIN self.keys : ~CanPermute(self.data[self.keys[i]], indices)}
        stop == IF bad = {} THEN Len(self.keys) + 1
                ELSE CHOOSE i \in bad : \A j \in bad : i <= j
        pos(key) == CHOOSE i \in DOMAIN self.keys : self.keys[i] = key
        data1 == [key \in DOMAIN self.data |->
                    IF pos(key) < stop THEN Permute(self.data[key], indices)
                    ELSE self.data[key]]
    IN  IF bad # {} THEN [err |-> "IndexError", b |-> [self EXCEPT !.data = data1]]
        ELSE IF self.dates.kind = "str" /\ self.dates.v # <<>>
             THEN [err |-> "TypeError", b |-> [self EXCEPT !.data = data1]]
        ELSE [err |-> "none",
              b |-> [self EXCEPT !.data = data1,
                                 !.dates = [kind |-> "str",
                                            v |-> [i \in DOMAIN self.dates.v |->
                                                     strftime(self.dates.v[i])]]]]

\* A padding that gives every cost with one fractional digit a second one
PadPrice_one_digit(price) ==
    IF Len(price) >= 2 /\ price[Len(price) - 1] = "." THEN price \o <<"0">> ELSE price

\* if price.endswith(".0"): price += "0"
PadPrice(price) == IF EndsWith(price, <<".", "0">>) THEN price \o <<"0">> ELSE price
\* LatexBuilder.pad_prices
pad_prices(self) ==
    LET costs == Append(self.data[K_cost], self.total)
        padded == [i \in DOMAIN costs |-> PadPrice(costs[i])]
    IN  [self EXCEPT !.data[K_cost] = SubSeq(padded, 1, Len(padded) - 1),
                     !.total = padded[Len(padded)]]

AmountOpen == <<"\\","a","m","o","u","n","t","{">>
\* LatexBuilder.build_list_entry
build_list_entry(purpose, date, price) ==
    purpose \o <<"&">> \o date \o <<"&">> \o AmountOpen \o price \o <<"}", "\\", "\\">>

FragNames == {"tableitems.tex", "eventname.tex", "eventdate.tex", "total.tex"}

\* A set that raises its flag before it writes the fragment files
set_flags_first(self, fr) ==
    LET s == sort_by_date(self)
    IN  IF s.err # "none" THEN [err |-> s.err, b |-> s.b, frag |-> fr]
        ELSE
        LET p == pad_prices(s.b)
            opened == ("tableitems.tex" :> <<>>) @@ fr
        IN  IF K_purpose \notin DOMAIN p.data
            THEN [err |-> "KeyError", b |-> [p EXCEPT !.is_set = TRUE], frag |-> opened]
            ELSE
            LET purpose == p.data[K_purpose]
                date == p.data[K_invoice_date]
                cost == p.data[K_cost]
                zipLen == Min(Len(purpose), Min(Len(date), Len(cost)))
                n == Min(zipLen, p.data_size)
                table == Flatten([i \in 1..n |->
                             build_list_entry(purpose[i], date[i], cost[i]) \o <<NL>>])
                written == ("tableitems.tex" :> table) @@ fr
            IN  IF p.data_size > zipLen
                THEN [err |-> "StopIteration", b |-> [p EXCEPT !.is_set = TRUE], frag |-> written]
                ELSE [err |-> "none",
                      b |-> [p EXCEPT !.is_set = TRUE],
                      frag |-> [f \in FragNames |->
                                 CASE f = "tableitems.tex" -> table
                                   [] f = "eventname.tex" ->
                                        Capitalize(Split(p.event_name, "_")[1])
                                   [] f = "eventdate.tex" -> p.event_date
                                   [] f = "total.tex" ->
                                        AmountOpen \o p.total \o <<"}">>]]

\* LatexBuilder.set on self with the fragment files fr: the object and the
\* fragment files after the call, and the exception if one is raised.
\* tableitems.tex is opened for writing (emptied) before the row lists are read.
set(self, fr) ==
    LET s == sort_by_date(self)
    IN  IF s.err # "none" THEN [err |-> s.err, b |-> s.b, frag |-> fr]
        ELSE
        LET p == pad_prices(s.b)
            opened == ("tableitems.tex" :> <<>>) @@ fr
        IN  IF K_purpose \notin DOMAIN p.data
            THEN [err |-> "KeyError", b |-> p, frag |-> opened]
            ELSE
            LET purpose == p.data[K_purpose]
                date == p.data[K_invoice_date]
                cost == p.data[K_cost]
                zipLen == Min(Len(purpose), Min(Len(date), Len(cost)))
                n == Min(zipLen, p.data_size)
                table == Flatten([i \in 1..n |->
                             build_list_entry(purpose[i], date[i], cost[i]) \o <<NL>>])
                written == ("tableitems.tex" :> table) @@ fr
            IN  IF p.data_size > zipLen
                THEN [err |-> "StopIteration", b |-> p, frag |-> written]
                ELSE [err |-> "none",
                      b |-> [p EXCEPT !.is_set = TRUE],
                      frag |-> [f \in FragNames |->
                                 CASE f = "tableitems.tex" -> table
                                   [] f = "eventname.tex" ->
                                        Capitalize(Split(p.event_name, "_")[1])
                                   [] f = "eventdate.tex" -> p.event_date
                                   [] f = "total.tex" ->
                                        AmountOpen \o p.total \o <<"}">>]]

\* ------------------------------------------------------ compiler driver
Extensions == <<"aux", "log", "out", "gz">>

\* The cleanup loop: one find per extension, in order; a find that exits
\* non-zero raises and ends the loop, and files of its extension remain.
\* findFailAt is the position of the failing call, 0 when none fails.
Cleanup(st, env) ==
    LET n == Len(Extensions)
        calls == IF env.findFailAt = 0 THEN n ELSE env.findFailAt
        done == IF env.findFailAt = 0 THEN n ELSE env.findFailAt - 1
        gone == {Extensions[i] : i \in 1..done}
    IN  [st EXCEPT !.procs = @ \o [i \in 1..calls |-> "find"],
                   !.junk = @ \ gone,
                   !.deleted = @ \cup (gone \cap st.junk),
                   !.err = IF env.findFailAt = 0 THEN "none" ELSE "CalledProcessError"]

\* subprocess.check_call of the compiler: it leaves its transient files, and
\* the document when it exits with status zero
RunCompiler(st, tool, job, env) ==
    LET ran == [st EXCEPT !.procs = Append(@, tool), !.junk = @ \cup env.made]
    IN  IF env.exit # 0 THEN [ran EXCEPT !.err = "CalledProcessError"]
        ELSE [ran EXCEPT !.docs = @ \cup {[tool |-> tool, job |-> job]}]

\* Both compilers probed and both run when found
ChooseCompiler_both(self, st, env) ==
    LET jobname == Replace(self.event_name, "_", "-")
        p1 == [st EXCEPT !.procs = Append(@, "which tectonic")]
        r1 == IF env.tectonic
              THEN RunCompiler([p1 EXCEPT !.jobDirs = @ \cup {jobname}],
                               "tectonic", jobname, env)
              ELSE p1
        p2 == [r1 EXCEPT !.procs = Append(@, "which pdflatex")]
    IN  IF r1.err # "none" THEN r1
        ELSE IF env.pdflatex THEN RunCompiler(p2, "pdflatex", jobname, env) ELSE p2

\* The if/elif of compile: tectonic when which finds it, else pdflatex when
\* which finds it, else nothing
ChooseCompiler(self, st, env) ==
    LET jobname == Replace(self.event_name, "_", "-")
        p1 == [st EXCEPT !.procs = Append(@, "which tectonic")]
    IN  IF env.tectonic
        THEN RunCompiler([p1 EXCEPT !.jobDirs = @ \cup {jobname}],
                         "tectonic", jobname, env)
        ELSE LET p2 == [p1 EXCEPT !.procs = Append(@, "which pdflatex")]
             IN  IF env.pdflatex THEN RunCompiler(p2, "pdflatex", jobname, env)
                 ELSE p2

\* The file system and the processes started, before a compile call
CompileStart ==
    [err |-> "none", outDir |-> outDir, jobDirs |-> jobDirs, junk |-> junk,
     docs |-> docs, procs |-> <<>>, deleted |-> {}]

\* compile without the is_set check
compile_unguarded(self, debug, env) ==
    LET c == ChooseCompiler(self, [CompileStart EXCEPT !.outDir = TRUE], env)
    IN  IF c.err # "none" THEN c
        ELSE IF ~debug THEN Cleanup(c, env) ELSE c

\* compile that returns at once when neither compiler is found
compile_early_return(self, debug, env) ==
    IF ~self.is_set THEN [CompileStart EXCEPT !.err = "NotSetError"]
    ELSE IF ~env.tectonic /\ ~env.pdflatex THEN CompileStart
    ELSE LET c == ChooseCompiler(self, [CompileStart EXCEPT !.outDir = TRUE], env)
         IN  IF c.err # "none" THEN c
             ELSE IF ~debug THEN Cleanup(c, env) ELSE c

\* compile that cleans up whatever debug says
compile_ignores_debug(self, debug, env) ==
    IF ~self.is_set THEN [CompileStart EXCEPT !.err = "NotSetError"]
    ELSE LET c == ChooseCompiler(self, [CompileStart EXCEPT !.outDir = TRUE], env)
         IN  IF c.err # "none" THEN c ELSE Cleanup(c, env)

\* LatexBuilder.compile(debug): the file system after the call, the processes
\* it started, and the exception if one is raised
compile(self, debug, env) ==
    IF ~self.is_set THEN [CompileStart EXCEPT !.err = "NotSetError"]
    ELSE LET c == ChooseCompiler(self, [CompileStart EXCEPT !.outDir = TRUE], env)
         IN  IF c.err # "none" THEN c
             ELSE IF ~debug THEN Cleanup(c, env) ELSE c

\* What the environment decides in one compile call: whether which finds each
\* compiler, the compiler's exit status and the transient files it leaves,
\* and which find call, if any, exits non-zero.  Only the outcomes of the
\* processes the call starts are enumerated.
MadeChoices == {{}, {"aux", "log"}}
Envs(debug) ==
    {e \in [tectonic : BOOLEAN, pdflatex : BOOLEAN, exit : {0, 1}, made : MadeChoices,
            findFailAt : 0..Len(Extensions)] :
        /\ (~e.tectonic /\ ~e.pdflatex) => (e.exit = 0 /\ e.made = {})
        /\ (debug \/ e.exit # 0) => e.findFailAt = 0}

NoEnv == [tectonic |-> FALSE, pdflatex |-> FALSE, exit |-> 0, made |-> {},
          findFailAt |-> 0]

\* -------------------------------------------------------------- actions
NoStrip == [op |-> "none", v |-> RawFields(<<>>, <<>>, <<>>, <<>>), user |-> <<>>,
            err |-> "none", message |-> "", key |-> "", out |-> <<>>]

\* stripped = strip(values, user), as handle_view_events calls it
CallStrip(v, user_id) ==
    /\ \E r \in {strip(v, user_id)} :
           stripped' = [op |-> "strip", v |-> v, user |-> user_id, err |-> r.err,
                        message |-> r.message, key |-> r.key, out |-> r.out]
    /\ UNCHANGED ledgerVars
    /\ UNCHANGED builderVars
    /\ UNCHANGED callerVars
    /\ UNCHANGED otherVars

\* builder = LatexBuilder(datafile, event_date)
NewLatexBuilder(datafile, event_date) ==
    /\ bpc = "none"
    /\ \E r \in {LatexBuilder_init(datafile, event_date)} :
           /\ bpc' = IF r.err = "none" THEN "built" ELSE "none"
           /\ b' = r.b
           /\ loaded' = r.b.data
           /\ result' = [op |-> "init", err |-> r.err, arg |-> datafile,
                         debug |-> FALSE, env |-> NoEnv,
                         procs |-> <<>>, deleted |-> {}]
    /\ UNCHANGED <<frag, outDir, jobDirs, junk, docs>>
    /\ UNCHANGED ledgerVars
    /\ UNCHANGED validatorVars
    /\ UNCHANGED otherVars
    /\ UNCHANGED callerVars

\* builder.set()
CallSet ==
    /\ bpc = "built"
    /\ \E r \in {set(b, frag)} :
           /\ b' = r.b
           /\ frag' = r.frag
           /\ wrote' = IF r.err = "none" THEN [wrote EXCEPT ![1] = r.frag] ELSE wrote
           /\ result' = [op |-> "set", err |-> r.err, arg |-> <<>>,
                         debug |-> FALSE, env |-> NoEnv,
                         procs |-> <<>>, deleted |-> {}]
    /\ UNCHANGED <<bpc, loaded, outDir, jobDirs, junk, docs>>
    /\ UNCHANGED ledgerVars
    /\ UNCHANGED validatorVars
    /\ UNCHANGED other
    /\ UNCHANGED callerVars

\* builder.sort_by_date(), called on its own
CallSortByDate ==
    /\ bpc = "built"
    /\ \E r \in {sort_by_date(b)} :
           /\ b' = r.b
           /\ result' = [op |-> "sort_by_date", err |-> r.err, arg |-> <<>>,
                         debug |-> FALSE, env |-> NoEnv,
                         procs |-> <<>>, deleted |-> {}]
    /\ UNCHANGED <<bpc, loaded, frag, outDir, jobDirs, junk, docs>>
    /\ UNCHANGED ledgerVars
    /\ UNCHANGED validatorVars
    /\ UNCHANGED otherVars
    /\ UNCHANGED callerVars

\* builder.pad_prices(), called on its own
CallPadPrices ==
    /\ bpc = "built"
    /\ \E r \in {pad_prices(b)} :
           /\ b' = r
           /\ result' = [op |-> "pad_prices", err |-> "none", arg |-> <<>>,
                         debug |-> FALSE, env |-> NoEnv,
                         procs |-> <<>>, deleted |-> {}]
    /\ UNCHANGED <<bpc, loaded, frag, outDir, jobDirs, junk, docs>>
    /\ UNCHANGED ledgerVars
    /\ UNCHANGED validatorVars
    /\ UNCHANGED otherVars
    /\ UNCHANGED callerVars

\* other = LatexBuilder(datafile, event_date), a second builder object
OtherNew(datafile, event_date) ==
    /\ other.pc = "none"
    /\ \E r \in {LatexBuilder_init(datafile, event_date)} :
           /\ other' = [pc |-> IF r.err = "none" THEN "built" ELSE "none", b |-> r.b]
           /\ result' = [op |-> "other.init", err |-> r.err, arg |-> datafile,
                         debug |-> FALSE, env |-> NoEnv,
                         procs |-> <<>>, deleted |-> {}]
    /\ UNCHANGED <<bpc, b, loaded, frag, outDir, jobDirs, junk, docs, wrote>>
    /\ UNCHANGED ledgerVars
    /\ UNCHANGED <<stripped, cpc>>

\* other.set()
OtherSet ==
    /\ other.pc = "built"
    /\ \E r \in {set(other.b, frag)} :
           /\ other' = [other EXCEPT !.b = r.b]
           /\ frag' = r.frag
           /\ wrote' = IF r.err = "none" THEN [wrote EXCEPT ![2] = r.frag] ELSE wrote
           /\ result' = [op |-> "other.set", err |-> r.err, arg |-> <<>>,
                         debug |-> FALSE, env |-> NoEnv,
                         procs |-> <<>>, deleted |-> {}]
    /\ UNCHANGED <<bpc, b, loaded, outDir, jobDirs, junk, docs>>
    /\ UNCHANGED ledgerVars
    /\ UNCHANGED <<stripped, cpc>>

\* other.compile(debug)
OtherCompile(debug, env) ==
    /\ other.pc = "built"
    /\ \E r \in {compile(other.b, debug, env)} :
           /\ outDir' = r.outDir
           /\ jobDirs' = r.jobDirs
           /\ junk' = r.junk
           /\ docs' = r.docs
           /\ result' = [op |-> "other.compile", err |-> r.err, arg |-> <<>>,
                         debug |-> debug, env |-> env,
                         procs |-> r.procs, deleted |-> r.deleted]
    /\ UNCHANGED <<bpc, b, loaded, frag, other, wrote>>
    /\ UNCHANGED ledgerVars
    /\ UNCHANGED <<stripped, cpc>>

\* builder.compile(debug)
CallCompile(debug, env) ==
    /\ bpc = "built"
    /\ \E r \in {compile(b, debug, env)} :
           /\ outDir' = r.outDir
           /\ jobDirs' = r.jobDirs
           /\ junk' = r.junk
           /\ docs' = r.docs
           /\ result' = [op |-> "compile", err |-> r.err, arg |-> <<>>,
                         debug |-> debug, env |-> env,
                         procs |-> r.procs, deleted |-> r.deleted]
    /\ UNCHANGED <<bpc, b, loaded, frag>>
    /\ UNCHANGED ledgerVars
    /\ UNCHANGED validatorVars
    /\ UNCHANGED otherVars
    /\ UNCHANGED callerVars

\* --------------------------------------------------------- ledger files
Header == Join(RecordKeys, COMMA)
FileOf(lines) == Flatten([i \in DOMAIN lines |-> lines[i] \o <<NL>>])
\* The file one Datafile leaves after storing recs, in order, to a new event
LedgerOf(recs) ==
    StoreText(TRUE, recs[1]) \o
    Flatten([i \in 1..(Len(recs) - 1) |-> StoreText(FALSE, recs[i + 1])])
StoredFiles == {LedgerOf(recs) : recs \in UNION {[1..k -> Records] : k \in 1..MaxRows}}

\* The ledger of section 8 of the specification: three dates out of order,
\* costs 10.0, 5.5 and 2
ExampleFile ==
    FileOf(<<Header,
             <<"2","0","2","4","-","0","3","-","0","1",",","B","e","r"," ","l","i","n","_","2","4",",","T","a","x","i",",","1","0",".","0",",","U","1">>,
             <<"2","0","2","4","-","0","1","-","1","5",",","B","e","r"," ","l","i","n","_","2","4",",","F","o","o","d",",","5",".","5",",","U","2">>,
             <<"2","0","2","4","-","0","2","-","2","0",",","B","e","r"," ","l","i","n","_","2","4",",","B","e","e","r",",","2",",","U","1">>>>)
HeaderOnlyFile == FileOf(<<Header>>)
EmptyFile == <<>>
\* A row with one column more than the header, and one with one less
LongRowFile == FileOf(<<Header, <<"2","0","2","4","-","0","1","-","1","5",",","b","e","r","_","2","4",",","F","o","o","d",",","5",".","5",",","U","2",",","l","a","t","e">>>>)
ShortRowFile == FileOf(<<Header, <<"2","0","2","4","-","0","1","-","1","5",",","b","e","r","_","2","4",",","F","o","o","d",",","5",".","5">>>>)
\* A purpose that holds the delimiter
CommaFile == FileOf(<<Header, <<"2","0","2","4","-","0","1","-","1","5",",","b","e","r","_","2","4",",","F","o","o","d",",","d","r","i","n","k","s",",","5",".","5",",","U","2">>>>)
\* Headers that do not name the expected fields
RenamedFieldFile ==
    FileOf(<<<<"i","n","v","o","i","c","e","_","d","a","t","e",",","e","v","e","n","t","_","n","a","m","e",",","p","u","r","p","o","s","e",",","a","m","o","u","n","t",",","u","s","e","r">>,
             <<"2","0","2","4","-","0","1","-","1","5",",","b","e","r","_","2","4",",","F","o","o","d",",","5",".","5",",","U","2">>>>)
ExtraFieldFile ==
    FileOf(<<<<"i","n","v","o","i","c","e","_","d","a","t","e",",","e","v","e","n","t","_","n","a","m","e",",","p","u","r","p","o","s","e",",","c","o","s","t",",","u","s","e","r",",","n","o","t","e">>,
             <<"2","0","2","4","-","0","1","-","1","5",",","b","e","r","_","2","4",",","F","o","o","d",",","5",".","5",",","U","2",",","l","a","t","e">>>>)
NoPurposeFile ==
    FileOf(<<<<"i","n","v","o","i","c","e","_","d","a","t","e",",","e","v","e","n","t","_","n","a","m","e",",","c","o","s","t",",","u","s","e","r">>,
             <<"2","0","2","4","-","0","1","-","1","5",",","b","e","r","_","2","4",",","5",".","5",",","U","2">>>>)
\* A file whose first line is a row
HeaderlessFile ==
    FileOf(<<<<"2","0","2","4","-","0","1","-","1","5",",","b","e","r","_","2","4",",","F","o","o","d",",","5",".","5",",","U","2">>, Header,
             <<"2","0","2","4","-","0","3","-","0","1",",","b","e","r","_","2","4",",","T","a","x","i",",","1","0",".","0",",","U","1">>>>)
HandFiles ==
    {ExampleFile, HeaderOnlyFile, EmptyFile, LongRowFile, ShortRowFile, CommaFile,
     RenamedFieldFile, ExtraFieldFile, NoPurposeFile, HeaderlessFile}
SampleFiles == StoredFiles \cup HandFiles
\* The files the compiler driver is tried on: two event names, and a file on
\* which set fails
CompilerFiles == {ExampleFile, ShortRowFile} \cup {LedgerOf(<<r>>) : r \in Records}

LedgerPath == Filename(EventName)
DataPaths == {LedgerPath, <<"d","b","/","b","e","r","_","2","4",".","c","s","v">>, Filename(<<"n","o","p","e">>)}
EventDates == {<<"1","2",".","0","5",".","2","0","2","4">>}

\* ------------------------------------------------------ submitted views
\* Cost and purpose texts a user may type into the modal
RawCosts ==
    {<<"a","b","c">>, <<"1",".","2","3","4">>, <<"1","2",".","6","9">>, <<"2">>, <<"1","0",".","0">>, <<"0",".","0","0","0","0","1">>, <<"1","e","-","5">>, <<"n","a","n">>, <<"i","n","f">>, <<"-","5">>, <<" ","7"," ">>, <<"1",".","0","0","0">>, <<"1",",","5">>, <<>>}
RawPurposes == {<<"f","o","o","d">>, <<"F","o","o","d">>, <<"2"," ","b","e","e","r","s">>, <<>>, <<"f","o","o","d",",","d","r","i","n","k","s">>}
RawDates == {<<"2","0","2","4","-","0","1","-","1","5">>}
Users == {<<"U","1">>}
RawInputs ==
    {RawFields(EventName, d, c, p) : d \in RawDates, c \in RawCosts, p \in RawPurposes}
\* Submissions whose cost is a whole number of hundredths
RoundTripInputs ==
    {RawFields(EventName, d, c, p) :
        d \in RawDates,
        c \in {<<"1","2",".","6","9">>, <<"2">>, <<"5",".","5">>},
        p \in {<<"f","o","o","d">>, <<"f","o","o","d",",","d","r","i","n","k","s">>}}

\* ------------------------------------------------------- specifications
\* No LatexBuilder yet and no fragment written yet; stale transient files
\* of an earlier build lie in the tree.  fs is the set of possible contents
\* of db/.
Start(fs) ==
    /\ dbDir \in BOOLEAN
    /\ files \in fs
    /\ objs = [o \in ObjIds |-> NoObj]
    /\ stored = <<>>
    /\ bpc = "none"
    /\ b = NoBuilder
    /\ loaded = <<>>
    /\ frag = <<>>
    /\ outDir \in BOOLEAN
    /\ jobDirs = {}
    /\ junk = {"log", "gz"}
    /\ docs = {}
    /\ result = [op |-> "none", err |-> "none", arg |-> <<>>,
                 debug |-> FALSE, env |-> NoEnv,
                 procs |-> <<>>, deleted |-> {}]
    /\ stripped = NoStrip
    /\ cpc = [c \in ObjIds |-> "start"]
    /\ other = [pc |-> "none", b |-> NoBuilder]
    /\ wrote = <<<<>>, <<>>>>

\* Nothing stored yet
Init == Start({<<>>})
\* The event's ledger file already lies on the disk
InitAssembler == Start({(LedgerPath :> t) : t \in SampleFiles})
InitCompiler == Start({(LedgerPath :> t) : t \in CompilerFiles})

NextLedger ==
    \/ \E o \in ObjIds : Datafile_init(o, EventName)
    \/ \E o \in ObjIds, d \in Records : store(o, d)

NextAssembler ==
    \/ \E p \in DataPaths, ed \in EventDates : NewLatexBuilder(p, ed)
    \/ CallSet

\* The methods of a LatexBuilder, each called on its own
NextMethods ==
    \/ NextAssembler
    \/ CallSortByDate
    \/ CallPadPrices

NextBuilder ==
    \/ NextAssembler
    \/ \E debug \in BOOLEAN : \E env \in Envs(debug) : CallCompile(debug, env)

\* Datafile objects for several event names, each storing records of its
\* own event
EventOfObj(o) ==
    SubSeq(objs[o].filename, Len(DataPath) + 1, Len(objs[o].filename) - Len(Extension))
RecordsOf(event_name) ==
    { Rec(<<"2","0","2","4","-","0","3","-","0","1">>, event_name, <<"T","a","x","i">>, 1000, <<"U","1">>),
      Rec(<<"2","0","2","4","-","0","1","-","1","5">>, event_name, <<"F","o","o","d">>, 550, <<"U","2">>) }
NextEvents ==
    \/ \E o \in ObjIds, e \in KnownEvents : Datafile_init(o, e)
    \/ \E o \in ObjIds : \E d \in RecordsOf(EventOfObj(o)) : store(o, d)

\* Two builders, one for each of two events whose ledgers lie on the disk
OtherPath == Filename(OtherEvent)
InitTwoBuilders ==
    Start({(LedgerPath :> t1) @@ (OtherPath :> t2) :
              t1 \in {LedgerOf(<<r>>) : r \in Records},
              t2 \in {LedgerOf(<<r>>) :
                        r \in {x \in RecordsOf(OtherEvent) : FieldOf(x, K_cost).c = 550}}})
\* The compile calls in which no find fails and the compiler leaves no
\* transient file
QuietEnvs(debug) == {e \in Envs(debug) : e.made = {} /\ e.findFailAt = 0}
NextTwoBuilders ==
    \/ \E ed \in EventDates : NewLatexBuilder(LedgerPath, ed)
    \/ CallSet
    \/ \E debug \in BOOLEAN : \E env \in QuietEnvs(debug) : CallCompile(debug, env)
    \/ \E ed \in EventDates : OtherNew(OtherPath, ed)
    \/ OtherSet
    \/ \E debug \in BOOLEAN : \E env \in QuietEnvs(debug) : OtherCompile(debug, env)

\* The record validator beside one Datafile
NextValidator ==
    \/ \E v \in RawInputs, u \in Users : CallStrip(v, u)
    \/ Datafile_init(1, EventName)
    \/ \E d \in Records : store(1, d)

\* handle_view_events for one event, a step at a time: a view is validated,
\* its record stored through one Datafile, the ledger loaded
NextRoundTrip ==
    \/ \E v \in RoundTripInputs, u \in Users : CallStrip(v, u)
    \/ (stripped.op = "strip" /\ stripped.err = "none"
          /\ Datafile_init(1, FieldOf(stripped.out, K_event_name).s))
    \/ (stripped.op = "strip" /\ stripped.err = "none" /\ store(1, stripped.out))
    \/ \E ed \in EventDates : NewLatexBuilder(LedgerPath, ed)

\* Concurrent handlers of one event
NextCallers ==
    \/ \E c \in ObjIds : CallerIsdir(c, EventName)
    \/ \E c \in ObjIds : CallerMkdir(c)
    \/ \E c \in ObjIds : CallerIsfile(c)
    \/ \E c \in ObjIds : CallerCreate(c)
    \/ \E c \in ObjIds, d \in Records : CallerStore(c, d)

Next == NextLedger \/ NextBuilder \/ NextCallers \/ NextTwoBuilders
          \/ CallSortByDate \/ CallPadPrices \/ \E v \in RawInputs, u \in Users : CallStrip(v, u)

\* The whole program
Spec == Init /\ [][Next]_vars
\* The ledger store alone
SpecLedger == Init /\ [][NextLedger]_vars
\* The report assembler on a ledger file found on disk
SpecAssembler == InitAssembler /\ [][NextAssembler]_vars
\* The report assembler's methods on a ledger file found on disk
SpecMethods == InitAssembler /\ [][NextMethods]_vars
\* The report assembler and the compiler driver on a ledger file found on disk
SpecCompiler == InitCompiler /\ [][NextBuilder]_vars

\* The record validator and the ledger store
SpecValidator == Init /\ [][NextValidator]_vars
\* Validate, store to a fresh event, load
SpecRoundTrip == Init /\ [][NextRoundTrip]_vars

\* The ledger store over several event names
SpecEvents == Init /\ [][NextEvents]_vars
\* Two builders of different events, their calls interleaved
SpecTwoBuilders == InitTwoBuilders /\ [][NextTwoBuilders]_vars
\* Concurrent handlers of one event, a file system call at a time
SpecCallers == Init /\ [][NextCallers]_vars

\* ================================================================ claims
IsCompile(r) == r.op = "compile"
Compilers == {"tectonic", "pdflatex"}
\* The processes of a call other than find, in start order
Probes(r) == SelectSeq(r.procs, LAMBDA p : p # "find")
CleanupRan(r) == "find" \in Range(r.procs)
Invoked(r) == Range(r.procs) \cap Compilers
SetDone == result.op = "set" /\ result.err = "none"
Loaded(path) == result.op = "init" /\ result.arg = path

\* C1: once a record has been stored, the ledger file is the header line
\* followed by one row line per stored record, in store order.
LedgerLines == FileLines(files[LedgerPath])
C1_HeaderOnceThenRows ==
    Len(stored) >= 1 =>
        /\ isfile(LedgerPath)
        /\ LedgerLines = <<HeaderOf(stored[1])>> \o [i \in DOMAIN stored |-> RowOf(stored[i])]

\* C2: compile on a builder whose set() has not completed raises NotSetError,
\* starts no process, changes no directory and no file, and leaves is_set
\* false.
C2_CompileBeforeSet ==
    [][(IsCompile(result') /\ ~b.is_set) =>
          /\ result'.err = "NotSetError"
          /\ result'.procs = <<>>
          /\ result'.deleted = {}
          /\ ~b'.is_set
          /\ UNCHANGED <<bpc, b, frag, outDir, jobDirs, junk, docs, dbDir, files>>]_vars
C2_Witness ==
    /\ IsCompile(result) /\ result.err = "NotSetError"
    /\ bpc = "built" /\ ~b.is_set /\ ~outDir

\* C3: after set(), the table-row listing holds one line per ledger row, in
\* ascending invoice date with rows of equal date in file order, and every
\* field sequence is permuted alike, so each line carries the purpose, date
\* and cost of one ledger row (the cost possibly padded with one zero).
Perms(n) == {p \in [1..n -> 1..n] : \A i, j \in 1..n : i # j => p[i] # p[j]}
RowDate(k) == strptime(loaded[K_invoice_date][k])
SameCost(shown, text) == shown = text \/ shown = text \o <<"0">>
TableLines == FileLines(frag["tableitems.tex"])
C3_StableSortAligned ==
    SetDone =>
        LET n == b.data_size
        IN  /\ \A key \in DOMAIN loaded : Len(loaded[key]) = n
            /\ Len(TableLines) = n
            /\ \E p \in Perms(n) :
                 /\ \A i, j \in 1..n : i < j =>
                       \/ DateLess(RowDate(p[i]), RowDate(p[j]))
                       \/ RowDate(p[i]) = RowDate(p[j]) /\ p[i] < p[j]
                 /\ \A key \in DOMAIN loaded \ {K_cost} :
                       b.data[key] = [i \in 1..n |-> loaded[key][p[i]]]
                 /\ \A i \in 1..n :
                       /\ SameCost(b.data[K_cost][i], loaded[K_cost][p[i]])
                       /\ TableLines[i] =
                            loaded[K_purpose][p[i]] \o <<"&">> \o
                            loaded[K_invoice_date][p[i]] \o <<"&">> \o AmountOpen \o
                            b.data[K_cost][i] \o <<"}", "\\", "\\">>
C3_Witness ==
    /\ SetDone
    /\ \E i, j \in DOMAIN loaded[K_invoice_date] :
         /\ i < j
         /\ loaded[K_invoice_date][i] = loaded[K_invoice_date][j]
         /\ loaded[K_purpose][i] # loaded[K_purpose][j]
    /\ \E i, j \in DOMAIN loaded[K_invoice_date] :
         i < j /\ DateLess(RowDate(j), RowDate(i))

\* C4: the date in each table-row line is the row's invoice date in the form
\* DD.MM.YYYY; rows dated 2024-03-01, 2024-01-15, 2024-02-20 give lines
\* carrying 15.01.2024, 20.02.2024, 01.03.2024 in that order.
LineDates == [i \in DOMAIN TableLines |-> Split(TableLines[i], "&")[2]]
C4_DisplayDates ==
    SetDone =>
        /\ \A i \in DOMAIN TableLines :
              LineDates[i] = strftime(strptime(b.data[K_invoice_date][i]))
        /\ files[LedgerPath] = ExampleFile =>
              LineDates = <<<<"1","5",".","0","1",".","2","0","2","4">>, <<"2","0",".","0","2",".","2","0","2","4">>, <<"0","1",".","0","3",".","2","0","2","4">>>>

\* C5: for the cost column 10.0, 5.5, 2 the total computed at load is 17.5
\* and after pad_prices the costs show as 10.00, 5.50 and 2 and the total as
\* 17.50; every cost, and the total, whose text has exactly one fractional
\* digit is shown with two.
OneFractionalDigit(s) == Len(s) >= 2 /\ s[Len(s) - 1] = "." /\ IsDigit(s[Len(s)])
TwoFractionalDigits(s) ==
    Len(s) >= 3 /\ s[Len(s) - 2] = "." /\ IsDigit(s[Len(s) - 1]) /\ IsDigit(s[Len(s)])
C5_PaddedPrices ==
    /\ (Loaded(LedgerPath) /\ result.err = "none" /\ files[LedgerPath] = ExampleFile) =>
          b.total = <<"1","7",".","5">>
    /\ (SetDone /\ files[LedgerPath] = ExampleFile) =>
          /\ \A c \in {<<"1","0",".","0","0">>, <<"5",".","5","0">>, <<"2">>} : c \in Range(b.data[K_cost])
          /\ b.total = <<"1","7",".","5","0">>
          /\ frag["total.tex"] = AmountOpen \o <<"1","7",".","5","0">> \o <<"}">>
    /\ SetDone =>
          /\ \A i \in DOMAIN b.data[K_cost] :
                \A k \in DOMAIN loaded[K_cost] :
                   (OneFractionalDigit(loaded[K_cost][k])
                      /\ SameCost(b.data[K_cost][i], loaded[K_cost][k]))
                   => TwoFractionalDigits(b.data[K_cost][i])
          /\ ~OneFractionalDigit(b.total)

\* C6: on a ledger file that holds only the header line, constructing the
\* LatexBuilder succeeds, and set() succeeds, writes an empty table-row
\* listing and the total 0.00, and sets is_set.
C6_EmptyDataset ==
    files[LedgerPath] = HeaderOnlyFile =>
        /\ Loaded(LedgerPath) => (result.err = "none" /\ bpc = "built")
        /\ result.op = "set" =>
              /\ result.err = "none"
              /\ b.is_set
              /\ frag["tableitems.tex"] = <<>>
              /\ frag["total.tex"] = AmountOpen \o <<"0",".","0","0">> \o <<"}">>

\* C7 as stated: in compile() on a set builder the cleanup runs if and only
\* if debug is false and the invoked compiler exited with status zero.
RanToZero(r) == Invoked(r) # {} /\ r.env.exit = 0
C7_CleanupIffCompilerOk ==
    (IsCompile(result) /\ b.is_set) =>
        (CleanupRan(result) <=> (~result.debug /\ RanToZero(result)))
\* C7 as amended: the cleanup runs if and only if debug is false and no
\* invoked compiler exited non-zero (so also when no compiler was found);
\* when the compiler exits non-zero the error propagates and no file is
\* deleted, and when debug is true no file is deleted.
RanToNonZero(r) == Invoked(r) # {} /\ r.env.exit # 0
C7_CleanupUnlessDebugOrFailure ==
    (IsCompile(result) /\ b.is_set) =>
        /\ CleanupRan(result) <=> (~result.debug /\ ~RanToNonZero(result))
        /\ RanToNonZero(result) =>
              (result.err = "CalledProcessError" /\ result.deleted = {})
        /\ result.debug => result.deleted = {}
        /\ ~CleanupRan(result) => result.deleted = {}
C7_Witness ==
    /\ IsCompile(result) /\ b.is_set
    /\ ~result.debug /\ RanToZero(result)
    /\ CleanupRan(result) /\ result.deleted # {}

\* C8: compile() probes tectonic first and pdflatex second and invokes at
\* most one of them: tectonic whenever it is found, pdflatex only when
\* tectonic is not found and pdflatex is; pdflatex is never invoked in a call
\* in which tectonic was found, also when the tectonic run fails.
C8_CompilerPriority ==
    (IsCompile(result) /\ b.is_set) =>
        LET ps == Probes(result)
            e == result.env
        IN  /\ ps # <<>> /\ ps[1] = "which tectonic"
            /\ Cardinality({i \in DOMAIN ps : ps[i] \in Compilers}) <= 1
            /\ e.tectonic => ps = <<"which tectonic", "tectonic">>
            /\ (~e.tectonic /\ e.pdflatex) =>
                  ps = <<"which tectonic", "which pdflatex", "pdflatex">>
            /\ (~e.tectonic /\ ~e.pdflatex) =>
                  ps = <<"which tectonic", "which pdflatex">>
C8_Witness ==
    /\ IsCompile(result) /\ b.is_set
    /\ result.env.tectonic /\ result.env.pdflatex /\ result.env.exit # 0
    /\ Invoked(result) = {"tectonic"}

\* C9 as stated: when neither compiler is found, compile() on a set builder
\* raises no error, produces no document and leaves the file system as it
\* was.
NeitherFound(r) == IsCompile(r) /\ ~r.env.tectonic /\ ~r.env.pdflatex
C9_SilentNoOp ==
    [][(NeitherFound(result') /\ b.is_set) =>
          /\ result'.err = "none"
          /\ UNCHANGED <<outDir, jobDirs, junk, docs, frag, dbDir, files>>]_vars
\* C9 as amended: when neither compiler is found, compile() on a set builder
\* invokes no compiler, produces no document and raises no error for the
\* missing compiler; it creates ./out/ when absent and, unless debug is true,
\* runs the cleanup, which deletes transient files and whose failing find is
\* the only error the call raises.
C9_NoCompilerStillCleans ==
    [][(NeitherFound(result') /\ b.is_set) =>
          /\ Invoked(result') = {}
          /\ UNCHANGED <<docs, jobDirs, frag, dbDir, files, b>>
          /\ outDir'
          /\ result'.debug =>
                (result'.err = "none" /\ ~CleanupRan(result') /\ junk' = junk)
          /\ ~result'.debug =>
                /\ CleanupRan(result')
                /\ junk' = junk \ result'.deleted
                /\ result'.env.findFailAt = 0 =>
                      (result'.err = "none" /\ junk' \cap Range(Extensions) = {})
                /\ result'.env.findFailAt # 0 => result'.err = "CalledProcessError"]_vars
C9_Witness ==
    /\ NeitherFound(result) /\ b.is_set
    /\ ~result.debug /\ result.err = "none"
    /\ result.deleted # {} /\ docs = {}

\* C10: loading a ledger file fails with the format error whenever its first
\* line does not name the expected fields or a row has a column count other
\* than the header's; no dataset is produced from such a file.
Malformed(text) ==
    LET lines == FileLines(text)
    IN  \/ lines = <<>>
        \/ Len(Split(lines[1], COMMA)) # Len(RecordKeys)
        \/ Range(Split(lines[1], COMMA)) # Range(RecordKeys)
        \/ \E i \in 2..Len(lines) :
              Len(Split(lines[i], COMMA)) # Len(Split(lines[1], COMMA))
C10_FormatErrorOnMalformed ==
    (Loaded(LedgerPath) /\ Malformed(files[LedgerPath])) =>
        (result.err = "InvalidFormatError" /\ bpc = "none")

\* C11: a record returned by strip, stored by one Datafile into a fresh event
\* and loaded by LatexBuilder, comes back as one row that holds the record's
\* invoice_date, event_name, purpose, cost and user, each under its own key.
LoadsOneStored ==
    /\ Len(stored) = 1
    /\ result' # result /\ result'.op = "init" /\ result'.arg = LedgerPath
C11_RoundTrip ==
    [][LoadsOneStored =>
          /\ result'.err = "none"
          /\ b'.data_size = 1
          /\ \A key \in {K_invoice_date, K_event_name, K_purpose, K_user} :
                b'.data[key] = <<FieldOf(stored[1], key).s>>
          /\ Len(b'.data[K_cost]) = 1
          /\ ParseFloat(b'.data[K_cost][1]).ok
          /\ ParseFloat(b'.data[K_cost][1]).cents = FieldOf(stored[1], K_cost).c]_vars

\* C12: strip returns a record only when the cost text is a decimal number
\* with at most two fractional digits and otherwise raises InputError with
\* the key invoice_cost (so on abc and on 1.234); the cost of a returned
\* record has at most two fractional digits and its purpose starts with an
\* upper-case letter; strip changes no state.
IsDecimalNumeral(text) ==
    LET t == RStrip(LStrip(text))
        u == IF t # <<>> /\ t[1] \in {"-", "+"} THEN Tail(t) ELSE t
        parts == Split(u, ".")
    IN  /\ Len(parts) <= 2
        /\ \A i \in DOMAIN parts : AllDigits(parts[i])
        /\ Len(u) > Len(parts) - 1
FractionalDigits(text) ==
    LET parts == Split(RStrip(text), ".")
    IN  IF Len(parts) = 2 THEN Len(parts[2]) - TrailZeros(parts[2]) ELSE 0
AcceptableCost(text) == IsDecimalNumeral(text) /\ FractionalDigits(text) <= 2
C12_StripValidates ==
    [][stripped' # stripped =>
          /\ stripped'.err = "none" => AcceptableCost(stripped'.v.cost)
          /\ ~AcceptableCost(stripped'.v.cost) =>
                (stripped'.err = "InputError" /\ stripped'.key = "invoice_cost")
          /\ stripped'.v.cost \in {<<"a","b","c">>, <<"1",".","2","3","4">>} =>
                stripped'.err = "InputError"
          /\ stripped'.err = "none" =>
                /\ IsDecimalNumeral(PyStr(FieldOf(stripped'.out, K_cost)))
                /\ FractionalDigits(PyStr(FieldOf(stripped'.out, K_cost))) <= 2
                /\ FieldOf(stripped'.out, K_purpose).s[1] \in Range(UpperChars)
          /\ UNCHANGED <<dbDir, files, objs, bpc, b, frag, outDir, jobDirs, junk, docs>>]_vars

\* C13: with two callers of one event running at once, the header/row
\* invariant can be broken.  A step breaks the intact ledger exactly when it
\* is a store through an object whose is_new_file no longer tells whether the
\* file is empty (the other caller created or wrote the file in between), or
\* the open(..., "w+") of a caller that saw no file, run after the other
\* caller's store; the witness is a ledger written by two callers whose first
\* line is a row and whose header follows a row.
IntactOf(fs, st) ==
    IF st = <<>>
    THEN LedgerPath \in DOMAIN fs => fs[LedgerPath] = <<>>
    ELSE /\ LedgerPath \in DOMAIN fs
         /\ FileLines(fs[LedgerPath]) = <<Header>> \o [i \in DOMAIN st |-> RowOf(st[i])]
Intact == IntactOf(files, stored)
IntactAfter == IntactOf(files', stored')
FlagFresh(c) ==
    objs[c].is_new_file = (~isfile(objs[c].filename) \/ files[objs[c].filename] = <<>>)
StoreStepBy(c) == cpc[c] = "store" /\ cpc'[c] = "done"
CreateStepBy(c) == cpc[c] = "create" /\ cpc'[c] = "store"
C13_InterleavingCorrupts ==
    [][Intact =>
          /\ \A c \in ObjIds : StoreStepBy(c) => (IntactAfter <=> FlagFresh(c))
          /\ \A c \in ObjIds : CreateStepBy(c) => (IntactAfter <=> stored = <<>>)
          /\ (\A c \in ObjIds : ~StoreStepBy(c) /\ ~CreateStepBy(c)) => IntactAfter]_vars
C13_Witness ==
    /\ \E c1, c2 \in ObjIds : c1 # c2 /\ cpc[c1] = "done" /\ cpc[c2] = "done"
    /\ Len(stored) = 2
    /\ isfile(LedgerPath)
    /\ Len(LedgerLines) = 3
    /\ LedgerLines[1] = RowOf(stored[1])
    /\ LedgerLines[2] = Header
    /\ LedgerLines[3] = RowOf(stored[2])
\* The other two outcomes of C13: a row lost to the truncating open, and a
\* second header
C13_LostRow ==
    /\ \E c1, c2 \in ObjIds : c1 # c2 /\ cpc[c1] = "done" /\ cpc[c2] = "done"
    /\ Len(stored) = 2
    /\ LedgerLines = <<Header, RowOf(stored[2])>>
    /\ stored[1] # stored[2]
C13_SecondHeader ==
    /\ Len(stored) = 2
    /\ LedgerLines = <<Header, RowOf(stored[1]), Header, RowOf(stored[2])>>

\* C14: in every LatexBuilder that was constructed without error, each of
\* the five field sequences has data_size elements, after construction and
\* after sort_by_date, pad_prices and set.
C14_EqualLengths ==
    bpc = "built" =>
        \A i \in DOMAIN RecordKeys :
            /\ RecordKeys[i] \in DOMAIN b.data
            /\ Len(b.data[RecordKeys[i]]) = b.data_size

\* C17: pad_prices appends one "0" to each cost, and to the total, that ends
\* in ".0" and changes no other string; the cost entries keep their number
\* and order, every other field and data_size stay as they were, the numeric
\* value of the total stays the same, and a second pad_prices right after
\* the first changes nothing.
EndsInPointZero(s) == Len(s) >= 2 /\ s[Len(s) - 1] = "." /\ s[Len(s)] = "0"
PaddedFrom(after, before) ==
    IF EndsInPointZero(before) THEN after = before \o <<"0">> ELSE after = before
C17_TwoDigitsKept ==
    /\ result.op = "pad_prices"
    /\ loaded[K_cost] = <<<<"1","2",".","6","9">>, <<"1","2",".","6","9">>, <<"1","2",".","6","9">>>>
    /\ b.data[K_cost] = loaded[K_cost]
    /\ b.total = <<"3","8",".","0","7">>
\* A total that ends in .0, padded
C17_PaddedTotal ==
    /\ result.op = "pad_prices"
    /\ loaded[K_cost] = <<<<"1","0",".","0">>, <<"1","0",".","0">>>>
    /\ b.total = <<"2","0",".","0","0">>

\* C15: the ledger file of an event is named by the normalized event name
\* (lower case, spaces removed): Datafile objects of two names with the same
\* normalized form write one file, objects of names with different
\* normalized forms write different files.
NormalizedName(event_name) == Remove(Lower(event_name), " ")
C15_NormalizedIdentity ==
    \A o1, o2 \in ObjIds :
        (objs[o1].constructed /\ objs[o2].constructed) =>
            ((NormalizedName(EventOfObj(o1)) = NormalizedName(EventOfObj(o2)))
                <=> objs[o1].filename = objs[o2].filename)

\* C16: with constructions and stores run one at a time, every operation
\* keeps the text already in the ledger file as a prefix of the file; a
\* construction on an existing file changes no file, and a store appends a
\* non-empty text that ends the file.
IsPrefix(s, t) == Len(s) <= Len(t) /\ SubSeq(t, 1, Len(s)) = s
ConstructsOnExisting ==
    \E o \in ObjIds : ~objs[o].constructed /\ objs'[o].constructed /\ isfile(LedgerPath)
C16_LedgerOnlyGrows ==
    [][/\ isfile(LedgerPath) =>
            /\ LedgerPath \in DOMAIN files'
            /\ IsPrefix(files[LedgerPath], files'[LedgerPath])
       /\ ConstructsOnExisting => files' = files
       /\ stored' # stored =>
            /\ Len(files'[LedgerPath]) > (IF isfile(LedgerPath) THEN Len(files[LedgerPath]) ELSE 0)
            /\ files'[LedgerPath][Len(files'[LedgerPath])] = NL]_vars
C16_Witness ==
    /\ \A o \in ObjIds : objs[o].constructed
    /\ Len(stored) >= 2
    /\ Len(LedgerLines) >= 3

\* C18: whenever compile() of a builder invokes a compiler, the four
\* fragment files hold what that builder's own set() wrote, whatever the
\* other builder did in between.
C18_OwnFragmentsCompiled ==
    /\ (result.op = "compile" /\ Invoked(result) # {}) => frag = wrote[1]
    /\ (result.op = "other.compile" /\ Invoked(result) # {}) => frag = wrote[2]

\* C19: is_set is false after construction, turns true only in a set() that
\* ends without error, having written the four fragment files from the
\* sorted and padded dataset, and never turns false again; a set() that
\* fails leaves is_set as it was.
FullyWritten(fr, self) ==
    /\ DOMAIN fr = FragNames
    /\ FileLines(fr["tableitems.tex"]) =
          [i \in 1..self.data_size |->
              self.data[K_purpose][i] \o <<"&">> \o self.data[K_invoice_date][i] \o
              <<"&">> \o AmountOpen \o self.data[K_cost][i] \o <<"}", "\\", "\\">>]
    /\ fr["total.tex"] = AmountOpen \o self.total \o <<"}">>
    /\ fr["eventdate.tex"] = self.event_date
    /\ LET token == Split(self.event_name, "_")[1]
       IN  /\ Len(fr["eventname.tex"]) = Len(token)
           /\ Lower(fr["eventname.tex"]) = Lower(token)
    /\ \A i \in DOMAIN self.data[K_cost] : ~EndsInPointZero(self.data[K_cost][i])
    /\ ~EndsInPointZero(self.total)
    /\ \A i, j \in DOMAIN self.data[K_invoice_date] :
          i < j => ~DateLess(strptime(self.data[K_invoice_date][j]),
                             strptime(self.data[K_invoice_date][i]))
C19_IsSetLifecycle ==
    [][/\ (bpc = "none" /\ bpc' = "built") => ~b'.is_set
       /\ (bpc = "built" /\ b.is_set) => (bpc' = "built" /\ b'.is_set)
       /\ (b'.is_set /\ ~b.is_set) =>
             (result'.op = "set" /\ result'.err = "none" /\ FullyWritten(frag', b'))
       /\ (result'.op = "set" /\ result'.err = "none") => b'.is_set
       /\ (result'.op = "set" /\ result'.err # "none") => b'.is_set = b.is_set]_vars
C19_Witness ==
    /\ SetDone /\ b.is_set
    /\ b.data_size = 3
    /\ FullyWritten(frag, b)
\* A set() that failed after it had emptied the table-row listing
C19_FailedSet ==
    /\ result.op = "set" /\ result.err = "KeyError"
    /\ ~b.is_set
    /\ DOMAIN frag = {"tableitems.tex"}

\* C20: a second set() on a builder ends without error, leaves the rows of
\* the dataset as the first set() ordered them and writes the four fragment
\* files with the content the first set() wrote.
C20_SecondSetRepeats ==
    [][(result'.op = "set" /\ b.is_set) =>
          /\ result'.err = "none"
          /\ b'.data = b.data
          /\ frag' = frag]_vars
====
